---- MODULE Spec2Model ----
(***************************************************************************)
(* The engine's open-addressing hash map (nge::cntr::Map).                 *)
(*                                                                         *)
(* Two variants of the container are in the repository:                    *)
(*   "A"  the map whose remove returns the removed value and asserts that  *)
(*        the key is mapped; its probe step is i = wrap(i + probe(++n));   *)
(*   "B"  the map whose remove returns nothing and ignores unmapped keys;  *)
(*        its probe step is i = probe(++n), without wrap.                  *)
(* The model carries the variant as a value fixed at construction.        *)
(*                                                                         *)
(* Bin tables live on a small heap (allocator get/release), map objects    *)
(* hold the address of their table.  Index 0 of a C++ array is element 1   *)
(* of the TLA+ sequence that models it.                                    *)
(***************************************************************************)
EXTENDS Integers, Sequences, FiniteSets

\* ---------------------------------------------------------------- bounds
\* Keys are 0 .. MaxKeys-1 (the test's keys[i]); a new key is always the
\* lowest key that was never used.
MaxKeys == 34
\* Keys below HotKeys can be the subject of any operation at any time.
HotKeys == 2
\* Values are 1 .. MaxVal; 0 is the default-constructed value V().
MaxVal == 2
\* Number of operations a run performs after its in-order insertions.
MaxExtra == 2
\* The small number of keys a run can start with.
SmallFill == 2
\* Heap addresses are 1 .. MaxAddr; 0 is nullptr.
MaxAddr == 3

\* ------------------------------------------------------ program constants
MIN_BINS == 32
\* static_cast<uint32>( -1 ): the all-ones word.  The model writes it as -1;
\* the code never orders it against a pair index (every comparison of bin
\* contents is guarded by isBinEmpty).
BIN_EMPTY == 0 - 1
GROW_THRESHOLD == 70
SHRINK_THRESHOLD == 30
\* uint32 arithmetic is modulo 2^32; every count of the model stays far below
\* 2^32 (at most a few hundred), so the sums and products below are exact.

Variants == {"A", "B"}
\* Hash functions handed to the constructor: the test's hashFunc (the length
\* of the key string: key i is i+1 letters long) and one under which all
\* keys collide.
HashFns == {"length", "collide"}
\* Initial capacities handed to the constructor.
Capacities == {0, MIN_BINS + 1}
\* A run first inserts this many keys in order (as the tests do): none, a
\* few, or as many as the default table has bins (which takes the table
\* through the growth threshold on the way).
\* the fewest entries for which a table of 2 * MIN_BINS bins is above the
\* shrink threshold: one removal takes the load from above to below it
\* (a fill of the runs that construct that table)
EdgeFill == (SHRINK_THRESHOLD * 2 * MIN_BINS) \div 100 + 1

FillSizes == {0, SmallFill, EdgeFill, MIN_BINS}
Keys == 0 .. MaxKeys - 1
Values == 1 .. MaxVal
DefaultValue == 0
MapIds == {1, 2}
Addrs == 1 .. MaxAddr
NULLPTR == 0

\* Results of an operation that does not return normally.
HANG == 0 - 1
OFF == 0 - 2
\* the entry of dict for a key that is not stored
Absent == 0 - 1

VARIABLES
    variant,    \* which of the two sources the map is built from
    hashFunc,   \* _hashFunc of the maps (copies and moves carry it along)
    maps,       \* the map objects: _bins, _binsInUse, _binCount, _pairs
    heap,       \* the bin allocator's memory
    status,     \* "ok", or how the last operation failed to return normally
    last,       \* the last operation performed and what it returned
    capacity,   \* the initial capacity map 1 was constructed with
    fill,       \* how many keys the run inserts in order at its start
    nextKey,    \* the lowest key never used so far
    extra,      \* operations performed after the in-order insertions
    budget,     \* how many such operations the run can perform
    dict,       \* what the callers stored: per map, the value last stored
                \* for each key (Absent for a key not stored or removed)
    order,      \* per map that has received insertions only: the keys in
                \* the order of their first insertion (Disordered for a map
                \* after a remove or clear)
    script,     \* the run so far is the tests' scenario: the keys inserted
                \* in order into map 1, then removed in the same order
    call,       \* the call of put whose probe loop is running (SpecProbe,
                \* where the loop of findBinForKey is taken step by step)
    ctor,       \* Map( capacity ) of map 1: where its loop is, and its
                \* uint32 _binCount and capacity (SpecCtor takes the loop
                \* step by step; elsewhere the constructor has returned)
    load        \* ( _binsInUse * 100 ) / _binCount of shouldGrow and
                \* shouldShrink on uint32: where the evaluation is, its
                \* operands, the product and the quotient (SpecLoad takes
                \* it step by step; elsewhere nothing is being evaluated)

vars == <<variant, hashFunc, maps, heap, status, last, capacity, fill, nextKey,
          extra, budget, dict, order, script, call, ctor, load>>

params == <<variant, hashFunc, capacity, fill, budget, ctor, load>>

\* ------------------------------------------------------------- utilities
Max(a, b) == IF a > b THEN a ELSE b

\* a & b on unsigned words
BitAnd[a \in Nat, b \in Nat] ==
    IF a = 0 \/ b = 0 THEN 0
    ELSE (a % 2) * (b % 2) + 2 * BitAnd[a \div 2, b \div 2]

\* _hashFunc( key )
hash(hf, key) ==
    IF hf = "length" THEN key + 1 ELSE 7

\* probe( probes )
probe(probes) == probes

\* wrap( index ): index & ( _binCount - 1 ), in uint32
wrap(index, binCount) ==
    IF binCount = 0 THEN index ELSE BitAnd[index, binCount - 1]

\* Pair makePair( key, value )
makePair(key, value) == [key |-> key, value |-> value]

\* ---------------------------------------------------- DynamicArray<Pair>
\* push( pair )
push(pairs, pair) == Append(pairs, pair)

\* removeAt( index ): later elements shift down by one
removeAt(pairs, index) ==
    [j \in 1 .. Len(pairs) - 1 |->
        IF j < index + 1 THEN pairs[j] ELSE pairs[j + 1]]

\* ------------------------------------------------------------ allocator
FreeCell == [live |-> FALSE, cells |-> <<>>]

FreeAddrs(h) == {a \in Addrs : ~h[a].live}
\* _binAlloc.get( count ): the lowest free address
get(h) == CHOOSE a \in FreeAddrs(h) : \A b \in FreeAddrs(h) : a <= b
\* _binAlloc.release( ptr, count )
release(h, ptr) == [h EXCEPT ![ptr] = FreeCell]

\* MemoryUtils::set( _bins, BIN_EMPTY, _binCount )
clearBins(binCount) == [i \in 1 .. binCount |-> BIN_EMPTY]

\* a copy that allocates the destination and leaves its words unset
copy_unset(src, count) == [i \in 1 .. count |-> BIN_EMPTY]

\* MemoryUtils::copy( dst, src, count ): the first `count` words of src
copy(src, count) == [i \in 1 .. count |-> src[i]]

\* ------------------------------------------------------------- probing
\* isBinEmpty( binIndex ), for binIndex < _binCount
isBinEmpty(cells, binIndex) == cells[binIndex + 1] = BIN_EMPTY

\* doesBinContain( binIndex, key )
doesBinContain(cells, pairs, binIndex, key) ==
    /\ binIndex < Len(cells)
    /\ ~isBinEmpty(cells, binIndex)
    /\ pairs[cells[binIndex + 1] + 1].key = key

\* probe( 1 ) + ... + probe( k )
probeSum(k) == (k * (k + 1)) \div 2

\* The bin the for loop of findBinForKey examines after k steps.
\* Variant A steps i = wrap( i + probe( ++probes ) ) from wrap( hashCode ):
\* as wrap is the remainder modulo _binCount, k steps lead to
\* wrap( hashCode + probe( 1 ) + ... + probe( k ) ).
\* Variant B steps i = probe( ++probes ): k steps lead to probe( k ).
binAfter(var, hashCode, binCount, k) ==
    IF k = 0 THEN wrap(hashCode, binCount)
    ELSE IF var = "A" THEN wrap(hashCode + probeSum(k), binCount)
    ELSE probe(k)

\* findBinForKey( key ): a bin index, or HANG or OFF.
\* The loop ends at the first bin that is EMPTY or holds the key.  OFF: that
\* bin is outside the table (variant B reaches _binCount; the assertion of
\* isBinEmpty fails there).  HANG: the loop never ends.  Variant A visits
\* every bin of a power-of-two table once in its first _binCount steps and
\* variant B reaches _binCount after as many, so a loop that has not ended
\* after _binCount steps never ends.
findBinForKey(var, hf, cells, pairs, key) ==
    LET \* the loop on the table t and the store ps, from hash code h
        loop[t \in {cells}, ps \in {pairs}, h \in Nat] ==
            LET n == Len(t)
                \* the loop condition is false after k steps
                ends(k) == \E b \in {binAfter(var, h, n, k)} :
                              \/ b >= n
                              \/ isBinEmpty(t, b)
                              \/ doesBinContain(t, ps, b, key)
            IN  IF \A k \in 0 .. n : ~ends(k) THEN HANG
                ELSE LET k == CHOOSE j \in 0 .. n :
                                  ends(j) /\ \A l \in 0 .. (j - 1) : ~ends(l)
                     IN  IF binAfter(var, h, n, k) >= n THEN OFF
                         ELSE binAfter(var, h, n, k)
    IN  loop[cells, pairs, hash(hf, key)]

\* --------------------------------------------------------- resize policy
\* a shouldShrink() without the floor of MIN_BINS
shouldShrink_noFloor(m) ==
    (m.binsInUse * 100) \div m.binCount <= SHRINK_THRESHOLD

\* a shouldShrink() that looks at the occupancy the removal will leave
shouldShrink_after(m) ==
    /\ ((m.binsInUse - 1) * 100) \div m.binCount <= SHRINK_THRESHOLD
    /\ m.binCount > MIN_BINS

\* a shouldShrink() with the comparison turned round
shouldShrink_above(m) ==
    /\ (m.binsInUse * 100) \div m.binCount >= SHRINK_THRESHOLD
    /\ m.binCount > MIN_BINS

\* shouldShrink()
shouldShrink(m) ==
    /\ (m.binsInUse * 100) \div m.binCount <= SHRINK_THRESHOLD
    /\ m.binCount > MIN_BINS

\* shouldGrow()
shouldGrow(m) ==
    (m.binsInUse * 100) \div m.binCount >= GROW_THRESHOLD

\* The loop of resize: bin of pair i is findBinForKey( _pairs[i].key ) in
\* the table built so far.  Yields the table, with how = 0, or the HANG or
\* OFF of the probe that did not return.
RECURSIVE rehash(_, _, _, _, _)
rehash(var, hf, cells, pairs, i) ==
    IF i >= Len(pairs) THEN [how |-> 0, cells |-> cells]
    ELSE LET pos == findBinForKey(var, hf, cells, pairs, pairs[i + 1].key)
         IN  IF pos < 0 THEN [how |-> pos, cells |-> cells]
             ELSE rehash(var, hf, [cells EXCEPT ![pos + 1] = i], pairs, i + 1)

\* a resize whose loop starts at the second pair
resize_skipsFirst(var, hf, pairs, newSize) ==
    rehash(var, hf, clearBins(newSize), pairs, 1)

\* resize( newSize ): the cells of the new table
resize(var, hf, pairs, newSize) ==
    rehash(var, hf, clearBins(newSize), pairs, 0)

\* ------------------------------------------------------------ queries
\* the bin table of map m in heap h
TableIn(h, m) == IF m.bins = NULLPTR THEN <<>> ELSE h[m.bins].cells

Table(m) == TableIn(heap, m)

Usable(m) == m.alive /\ m.bins # NULLPTR /\ m.binCount > 0

\* the bin findBinForKey resolves the key to in map m
BinOf(m, key) == findBinForKey(variant, hashFunc, Table(m), m.pairs, key)

\* has( key )
has(m, key) ==
    /\ Usable(m)
    /\ \E b \in {BinOf(m, key)} : b >= 0 /\ ~isBinEmpty(Table(m), b)

\* operator[]( key ) const, for a key has() reports
read(m, key) == m.pairs[Table(m)[BinOf(m, key) + 1] + 1].value

\* what a caller finds under a key: the value operator[]( key ) const
\* returns if has( key ), Absent if has( key ) is false
lookup(m, key) ==
    IF ~Usable(m) THEN Absent
    ELSE LET valueIn[b \in Int] ==
                 IF b >= 0 /\ ~isBinEmpty(Table(m), b)
                 THEN m.pairs[Table(m)[b + 1] + 1].value
                 ELSE Absent
         IN  valueIn[BinOf(m, key)]

\* put( key, value ) called on the map would return with the key in a bin
\* of the table: the map has a table and the probe for the key ends inside it
canPut(m, key) ==
    /\ Usable(m)
    /\ BinOf(m, key) >= 0

\* size()
size(m) == Len(m.pairs)

\* isEmpty()
isEmpty(m) == Len(m.pairs) = 0

\* an iterator that starts at the second entry
cbegin_second(m) == 1

\* cbegin(): the index the iterator starts with
cbegin(m) == 0

\* cend(): the index of the end iterator
cend(m) == Len(m.pairs)

\* ConstIterator::operator*: the entry at _iterIndex of the pair store
deref(m, iterIndex) == m.pairs[iterIndex + 1]

\* for ( iter = cbegin(); iter != cend(); ++iter ): the entries visited
iteration(m) ==
    [n \in 1 .. (cend(m) - cbegin(m)) |-> deref(m, cbegin(m) + n - 1)]

\* ------------------------------------------------------------ the maps
\* a map object that is not constructed (or destroyed)
NoMap ==
    [alive |-> FALSE, bins |-> NULLPTR, binsInUse |-> 0, binCount |-> 0,
     pairs |-> <<>>]

\* the loop of Map( capacity ): _binCount <<= 1 while _binCount < capacity
RECURSIVE binCountFor(_, _)
binCountFor(binCount, cap) ==
    IF binCount < cap THEN binCountFor(binCount * 2, cap)
    ELSE binCount

\* how an operation that broke a precondition can end: the assertion of a
\* debug build, or undefined behaviour of a release build
FailOutcomes == {"abort", "corrupt"}

\* how an operation on a moved-from map ends: the assertion of a debug
\* build, or the release build's access through the null _bins (operator[]
\* and remove divide by the zero _binCount before that)
NullOutcomes == {"abort"}

\* the operation returned to its caller
Returned == status \in {"ok", "corrupt"}

Op(op, m, src, key, val, ret, found, resized) ==
    [op |-> op, m |-> m, src |-> src, key |-> key, val |-> val, ret |-> ret,
     found |-> found, resized |-> resized]

\* The in-order insertions of the tests: map 1 receives the next new key
\* with the value 1.
InOrder(m, key, val) == m = 1 /\ key = nextKey /\ val = 1 /\ nextKey < fill

\* keys an operation can name: the hot keys, the key used last and a new one
OpKeys == {k \in Keys : k <= nextKey /\ (k < HotKeys \/ k + 1 >= nextKey)}

\* keys a query names: the first key and a key never used
QueryKeys == {k \in OpKeys : k = 0 \/ k = nextKey}

\* bookkeeping of the bounds
Count(m, key, val) ==
    /\ nextKey' = Max(nextKey, key + 1)
    /\ extra' = IF InOrder(m, key, val) THEN extra ELSE extra + 1
    /\ UNCHANGED <<params, call>>

Allowed(m, key, val) ==
    \/ InOrder(m, key, val)
    \/ nextKey >= fill /\ extra < budget

\* an operation without key after the in-order insertions
Extra ==
    /\ nextKey >= fill /\ extra < budget
    /\ extra' = extra + 1
    /\ script' = FALSE
    /\ UNCHANGED <<params, nextKey, call>>

\* a query after the in-order insertions.  The queries come last in a run:
\* they change no map, so what could follow one follows the state before it.
Final ==
    /\ nextKey >= fill /\ extra < budget
    /\ extra' = budget
    /\ script' = FALSE
    /\ UNCHANGED <<params, nextKey, call>>

\* what the caller of an operation on a key has stored once it returns
\* (status' is set by the operation)
Stored(m, key, val) ==
    dict' = IF status' \in {"ok", "corrupt"} THEN [dict EXCEPT ![m][key] = val]
            ELSE dict

\* order of a map that has received a remove or a clear
Disordered == <<Absent>>

\* the keys of a sequence
KeysOf(seq) == {seq[i] : i \in 1 .. Len(seq)}

\* the order of first insertion once an operation on a key has returned:
\* val = Absent is a remove
Ordered(m, key, val) ==
    order' = IF status' \notin {"ok", "corrupt"} THEN order
             ELSE IF val = Absent THEN [order EXCEPT ![m] = Disordered]
             ELSE IF order[m] = Disordered \/ key \in KeysOf(order[m]) THEN order
             ELSE [order EXCEPT ![m] = Append(@, key)]

\* the caller has stored a value for the key and not removed it
Holds(m, key) == dict[m][key] # Absent

\* an operation that fails before it changes anything
Fails(outcomes, op) ==
    /\ status' \in outcomes
    /\ last' = op
    /\ UNCHANGED <<maps, heap>>

\* A uint32 is held as its two 16-bit halves <<high, low>>.
Half == 65536

\* the uint32 of a small number
Word32(n) == <<n \div Half, n % Half>>

\* a <<= 1 on a uint32: the bit shifted out of the word is lost
shiftLeft(w) == <<(2 * w[1] + (2 * w[2]) \div Half) % Half, (2 * w[2]) % Half>>

\* a < b on uint32
lessThan(a, b) == a[1] < b[1] \/ (a[1] = b[1] /\ a[2] < b[2])

\* Map( capacity ) has returned with _binCount = n
Constructed(cap, n) ==
    [pc |-> "done", binCount |-> Word32(n), capacity |-> Word32(cap)]

\* the load of a table of binCount bins with binsInUse bins in use is to be
\* evaluated (uint32 operands)
Evaluate(binsInUse, binCount) ==
    [pc |-> "multiply", binsInUse |-> binsInUse, binCount |-> binCount,
     product |-> Word32(0), percent |-> Word32(0)]

\* no evaluation of the load is under way
AtRest == [Evaluate(Word32(0), Word32(MIN_BINS)) EXCEPT !.pc = "done"]

\* no call is inside findBinForKey
Idle == [active |-> FALSE, m |-> 0, key |-> 0, val |-> 0, i |-> 0, probes |-> 0]

\* Map( capacity ) or Map( capacity, hashFunc ) has constructed map 1, and a
\* run of the given shape begins: `fills` are the numbers of keys it can
\* insert in order, `ops` the number of operations that can follow them
Begin(fills, ops) ==
    /\ call = Idle
    /\ load = AtRest
    /\ variant \in Variants
    /\ hashFunc \in HashFns
    /\ fill \in fills
    /\ budget = ops
    /\ capacity \in Capacities
    /\ fill = EdgeFill => capacity > MIN_BINS
    /\ ctor = Constructed(capacity, binCountFor(MIN_BINS, capacity))
    /\ dict = [i \in MapIds |-> [k \in Keys |-> Absent]]
    /\ order = [i \in MapIds |-> <<>>]
    /\ script = TRUE
    /\  LET n == binCountFor(MIN_BINS, capacity)
        IN  /\ maps = [i \in MapIds |->
                        IF i = 1
                        THEN [alive |-> TRUE, bins |-> 1, binsInUse |-> 0,
                              binCount |-> n, pairs |-> <<>>]
                        ELSE NoMap]
            /\ heap = [a \in Addrs |->
                        IF a = 1 THEN [live |-> TRUE, cells |-> clearBins(n)]
                        ELSE FreeCell]
    /\ status = "ok"
    /\ last = Op("init", 1, 0, 0, 0, 0, FALSE, "none")
    /\ nextKey = 0
    /\ extra = 0

Init == Begin(FillSizes, MaxExtra)

\* The insertion shared by put and operator[]: bin b of map m (whose table
\* is `cells`) receives the key.  b = OFF is the release build of variant B
\* taking the word behind the table for an empty bin: the index is written
\* outside the table.
Insert(m, mp, cells, b, key, val, op) ==
    /\ maps' = [maps EXCEPT ![m] =
                 [mp EXCEPT !.binsInUse = mp.binsInUse + 1,
                            !.pairs = push(mp.pairs, makePair(key, val))]]
    /\ heap' = [heap EXCEPT ![mp.bins].cells =
                 IF b = OFF THEN cells
                 ELSE [cells EXCEPT ![b + 1] = Len(mp.pairs)]]
    /\ status' = IF b = OFF THEN "corrupt" ELSE "ok"
    /\ last' = op

\* the body of put( key, value ), copy and move form
putBody(m, key, val) ==
    LET mp == maps[m]
        op(found) == Op("put", m, 0, key, val, 0, found, "none")
    IN  /\ status = "ok" /\ mp.alive
        /\ Allowed(m, key, val) /\ Count(m, key, val)
        /\ script' = (script /\ InOrder(m, key, val))
        /\ IF ~Usable(mp) THEN Fails(NullOutcomes, op(FALSE))
           ELSE \E cells \in {Table(mp)} :
                \E b \in {findBinForKey(variant, hashFunc, cells, mp.pairs, key)} :
                    CASE b = HANG -> Fails({"hang"}, op(FALSE))
                      [] b = OFF ->
                            \/ Fails({"abort"}, op(FALSE))
                            \/ Insert(m, mp, cells, b, key, val, op(FALSE))
                      [] b >= 0 /\ isBinEmpty(cells, b) ->
                            Insert(m, mp, cells, b, key, val, op(FALSE))
                      [] OTHER ->
                            /\ maps' = [maps EXCEPT ![m].pairs[cells[b + 1] + 1] =
                                         makePair(key, val)]
                            /\ status' = "ok"
                            /\ last' = op(TRUE)
                            /\ UNCHANGED heap

\* grow() / shrink(): resize( newSize ) applied to map m.  Yields the map
\* and heap after it; `ok` is FALSE when the rehash did not return.
Resized(mp, h, newSize) ==
    LET t == resize(variant, hashFunc, mp.pairs, newSize)
        h1 == release(h, mp.bins)
        a == get(h1)
    IN  IF t.how # 0
        THEN [ok |-> FALSE, how |-> t.how, map |-> mp, heap |-> h]
        ELSE [ok |-> TRUE, how |-> 0,
              map |-> [mp EXCEPT !.bins = a, !.binCount = newSize],
              heap |-> [h1 EXCEPT ![a] = [live |-> TRUE, cells |-> t.cells]]]

FailureOf(how) == IF how = HANG THEN {"hang"} ELSE FailOutcomes

\* the body of operator[]( key ), followed (assign = TRUE) by the caller's
\* assignment of val through the returned reference, as in map[key] = val
IndexBody(opName, m, key, val, assign) ==
    LET mp0 == maps[m]
        op(found, resized, ret) ==
            Op(opName, m, 0, key, val, ret, found, resized)
    IN  /\ status = "ok" /\ mp0.alive
        /\ Allowed(m, key, val) /\ Count(m, key, val)
        /\ script' = (script /\ InOrder(m, key, val))
        /\ IF ~Usable(mp0) THEN Fails(NullOutcomes, op(FALSE, "none", 0))
           ELSE \E r \in {IF shouldGrow(mp0)
                          THEN Resized(mp0, heap, mp0.binCount * 2)
                          ELSE [ok |-> TRUE, how |-> 0, map |-> mp0, heap |-> heap]} :
                \E cells \in {r.heap[r.map.bins].cells} :
                \E b \in {findBinForKey(variant, hashFunc, cells, r.map.pairs, key)} :
                LET rs == IF shouldGrow(mp0) THEN "grow" ELSE "none"
                    mp == r.map
                    stored == IF assign THEN val ELSE DefaultValue
                IN  CASE ~r.ok -> Fails(FailureOf(r.how), op(FALSE, rs, 0))
                      [] r.ok /\ b = HANG ->
                            /\ status' = "hang"
                            /\ last' = op(FALSE, rs, 0)
                            /\ maps' = [maps EXCEPT ![m] = mp]
                            /\ heap' = r.heap
                      [] r.ok /\ b = OFF ->
                            \/ /\ status' = "abort"
                               /\ last' = op(FALSE, rs, 0)
                               /\ maps' = [maps EXCEPT ![m] = mp]
                               /\ heap' = r.heap
                            \/ /\ status' = "corrupt"
                               /\ last' = op(FALSE, rs, stored)
                               /\ maps' = [maps EXCEPT ![m] =
                                    [mp EXCEPT !.binsInUse = mp.binsInUse + 1,
                                               !.pairs = push(mp.pairs,
                                                    makePair(key, stored))]]
                               /\ heap' = r.heap
                      [] r.ok /\ b >= 0 /\ isBinEmpty(cells, b) ->
                            /\ status' = "ok"
                            /\ last' = op(FALSE, rs, stored)
                            /\ maps' = [maps EXCEPT ![m] =
                                 [mp EXCEPT !.binsInUse = mp.binsInUse + 1,
                                            !.pairs = push(mp.pairs,
                                                 makePair(key, stored))]]
                            /\ heap' = [r.heap EXCEPT ![mp.bins].cells[b + 1] =
                                          Len(mp.pairs)]
                      [] OTHER ->
                            LET j == cells[b + 1] + 1
                                old == mp.pairs[j].value
                                new == IF assign THEN val ELSE old
                            IN  /\ status' = "ok"
                                /\ last' = op(TRUE, rs, new)
                                /\ maps' = [maps EXCEPT ![m] =
                                     [mp EXCEPT !.pairs[j].value = new]]
                                /\ heap' = r.heap

\* V& operator[]( key )
index(m, key) ==
    /\ IndexBody("index", m, key, DefaultValue, FALSE)
    /\ Stored(m, key, IF dict[m][key] = Absent THEN DefaultValue
                      ELSE dict[m][key])
    /\ Ordered(m, key, DefaultValue)

\* map[key] = val, the insertion statement of the tests
indexAssign(m, key, val) ==
    /\ InOrder(m, key, val)
    /\ IndexBody("indexAssign", m, key, val, TRUE)
    /\ Stored(m, key, val)
    /\ Ordered(m, key, val)

\* put( key, value )
put(m, key, val) ==
    putBody(m, key, val) /\ Stored(m, key, val) /\ Ordered(m, key, val)

\* what a call of a const member leaves alone: the maps and the tables
ReadOnly == UNCHANGED <<maps, heap, dict, order>>

\* a has( key ) that grows the table when it is 70% full
callHas_grows(m, key) ==
    LET mp == maps[m]
        r == IF Usable(mp) /\ shouldGrow(mp)
             THEN Resized(mp, heap, mp.binCount * 2)
             ELSE [ok |-> TRUE, how |-> 0, map |-> mp, heap |-> heap]
    IN  /\ status = "ok" /\ mp.alive
        /\ Final
        /\ maps' = [maps EXCEPT ![m] = r.map]
        /\ heap' = r.heap
        /\ UNCHANGED <<dict, order>>
        /\ status' = "ok"
        /\ last' = Op("has", m, 0, key, 0, 0, has(mp, key), "none")

\* a call of has( key ): found is what it returns
callHas(m, key) ==
    LET mp == maps[m]
        op(found) == Op("has", m, 0, key, 0, 0, found, "none")
    IN  /\ status = "ok" /\ mp.alive
        /\ Final
        /\ ReadOnly
        /\ IF ~Usable(mp) THEN status' \in NullOutcomes /\ last' = op(FALSE)
           ELSE \E b \in {BinOf(mp, key)} :
                CASE b = HANG -> status' = "hang" /\ last' = op(FALSE)
                  [] b = OFF ->
                        \/ status' = "abort" /\ last' = op(FALSE)
                        \/ status' = "corrupt" /\ \E g \in BOOLEAN : last' = op(g)
                  [] OTHER ->
                        /\ status' = "ok"
                        /\ last' = op(~isBinEmpty(Table(mp), b))

\* a call of operator[]( key ) const: ret is the value it returns.  On a
\* key it does not find its assertion fails, or (assertion compiled out)
\* it returns what lies at index BIN_EMPTY of the store.
indexConst(m, key) ==
    LET mp == maps[m]
        op(found, ret) == Op("read", m, 0, key, 0, ret, found, "none")
        garbage == \E g \in {DefaultValue} \cup Values :
                       status' = "corrupt" /\ last' = op(FALSE, g)
    IN  /\ status = "ok" /\ mp.alive
        /\ Final
        /\ ReadOnly
        /\ IF ~Usable(mp) THEN status' \in NullOutcomes /\ last' = op(FALSE, 0)
           ELSE \E cells \in {Table(mp)} :
                \E b \in {findBinForKey(variant, hashFunc, cells, mp.pairs, key)} :
                CASE b = HANG -> status' = "hang" /\ last' = op(FALSE, 0)
                  [] b = OFF \/ (b >= 0 /\ isBinEmpty(cells, b)) ->
                        \/ status' = "abort" /\ last' = op(FALSE, 0)
                        \/ garbage
                  [] OTHER ->
                        /\ status' = "ok"
                        /\ last' = op(TRUE, mp.pairs[cells[b + 1] + 1].value)

\* a fix-up that empties the bin and leaves the other bins as they are
fixBins_noShift(cells, b, idx) ==
    [i \in 1 .. Len(cells) |-> IF i = b + 1 THEN BIN_EMPTY ELSE cells[i]]

\* the bins after the entry at pair index idx, held by bin b, was removed
fixBins(cells, b, idx) ==
    [i \in 1 .. Len(cells) |->
        IF i = b + 1 THEN BIN_EMPTY
        ELSE IF cells[i] # BIN_EMPTY /\ cells[i] > idx THEN cells[i] - 1
        ELSE cells[i]]

\* the body of remove( key ): V remove in variant A, void remove in
\* variant B.  Variant A documents that the key must be mapped: its callers
\* remove only keys they have stored.
removeBody(m, key) ==
    LET mp0 == maps[m]
        op(found, resized, ret) ==
            Op("remove", m, 0, key, 0, ret, found, resized)
    IN  /\ status = "ok" /\ mp0.alive
        /\ Allowed(m, key, 0) /\ Count(m, key, 0)
        /\ variant = "A" => Holds(m, key)
        /\ script' = (script /\ m = 1 /\ key = extra /\ key < nextKey)
        /\ IF ~Usable(mp0) THEN Fails(NullOutcomes, op(FALSE, "none", 0))
           ELSE \E r \in {IF shouldShrink(mp0)
                          THEN Resized(mp0, heap, mp0.binCount \div 2)
                          ELSE [ok |-> TRUE, how |-> 0, map |-> mp0, heap |-> heap]} :
                \E cells \in {r.heap[r.map.bins].cells} :
                \E b \in {findBinForKey(variant, hashFunc, cells, r.map.pairs, key)} :
                LET rs == IF shouldShrink(mp0) THEN "shrink" ELSE "none"
                    mp == r.map
                    quiet == /\ status' = "ok"
                             /\ last' = op(FALSE, rs, 0)
                             /\ maps' = [maps EXCEPT ![m] = mp]
                             /\ heap' = r.heap
                    stop(outcomes) ==
                             /\ status' \in outcomes
                             /\ last' = op(FALSE, rs, 0)
                             /\ maps' = [maps EXCEPT ![m] = mp]
                             /\ heap' = r.heap
                    \* variant A without its assertion: the pair index is
                    \* BIN_EMPTY, the value returned is whatever lies there
                    stray ==
                             /\ status' = "corrupt"
                             /\ \E g \in {DefaultValue} \cup Values :
                                    last' = op(FALSE, rs, g)
                             /\ maps' = [maps EXCEPT ![m] =
                                  [mp EXCEPT !.binsInUse = mp.binsInUse - 1]]
                             /\ heap' = r.heap
                IN  CASE ~r.ok -> Fails(FailureOf(r.how), op(FALSE, rs, 0))
                      [] r.ok /\ b = HANG -> stop({"hang"})
                      [] r.ok /\ b = OFF -> stop({"abort"}) \/ quiet
                      [] r.ok /\ b >= 0 /\ isBinEmpty(cells, b) ->
                            IF variant = "A" THEN stop({"abort"}) \/ stray
                            ELSE quiet
                      [] OTHER ->
                            LET idx == cells[b + 1]
                            IN  /\ status' = "ok"
                                /\ last' = op(TRUE, rs, mp.pairs[idx + 1].value)
                                /\ maps' = [maps EXCEPT ![m] =
                                     [mp EXCEPT !.binsInUse = mp.binsInUse - 1,
                                                !.pairs = removeAt(mp.pairs, idx)]]
                                /\ heap' = [r.heap EXCEPT ![mp.bins].cells =
                                              fixBins(cells, b, idx)]

\* remove( key )
remove(m, key) ==
    removeBody(m, key) /\ Stored(m, key, Absent) /\ Ordered(m, key, Absent)

\* clear()
clear(m) ==
    LET mp == maps[m]
    IN  /\ status = "ok" /\ mp.alive
        /\ Extra
        /\ dict' = [dict EXCEPT ![m] = [k \in Keys |-> Absent]]
        /\ order' = [order EXCEPT ![m] = Disordered]
        /\ maps' = [maps EXCEPT ![m] = [mp EXCEPT !.pairs = <<>>, !.binsInUse = 0]]
        /\ heap' = IF mp.bins = NULLPTR THEN heap
                   ELSE [heap EXCEPT ![mp.bins].cells = clearBins(mp.binCount)]
        /\ status' = "ok"
        /\ last' = Op("clear", m, 0, 0, 0, 0, FALSE, "none")

\* a copy constructor that copies the pointer _bins instead of the table
copyConstruct_shallow(dst, src) ==
    /\ status = "ok" /\ ~maps[dst].alive /\ maps[src].alive
    /\ Extra
    /\ dict' = [dict EXCEPT ![dst] = dict[src]]
    /\ order' = [order EXCEPT ![dst] = order[src]]
    /\ maps' = [maps EXCEPT ![dst] = maps[src]]
    /\ heap' = heap
    /\ status' = "ok"
    /\ last' = Op("copyConstruct", dst, src, 0, 0, 0, FALSE, "none")

\* Map( const Map& map ): map `dst` is constructed as a copy of `src`
copyConstruct(dst, src) ==
    LET from == maps[src]
        a == get(heap)
    IN  /\ status = "ok" /\ ~maps[dst].alive /\ from.alive
        /\ Extra
        /\ dict' = [dict EXCEPT ![dst] = dict[src]]
        /\ order' = [order EXCEPT ![dst] = order[src]]
        /\ maps' = [maps EXCEPT ![dst] =
                     [alive |-> TRUE, bins |-> a, binsInUse |-> from.binsInUse,
                      binCount |-> from.binCount, pairs |-> from.pairs]]
        /\ heap' = [heap EXCEPT ![a] =
                     [live |-> TRUE,
                      cells |-> copy(Table(from), from.binCount)]]
        /\ status' = "ok"
        /\ last' = Op("copyConstruct", dst, src, 0, 0, 0, FALSE, "none")

\* operator=( const Map& map ), on two different maps
copyAssign(dst, src) ==
    LET from == maps[src]
        to == maps[dst]
        h1 == IF to.bins # NULLPTR THEN release(heap, to.bins) ELSE heap
        a == get(h1)
    IN  /\ status = "ok" /\ to.alive /\ from.alive /\ dst # src
        /\ Extra
        /\ dict' = [dict EXCEPT ![dst] = dict[src]]
        /\ order' = [order EXCEPT ![dst] = order[src]]
        /\ maps' = [maps EXCEPT ![dst] =
                     [alive |-> TRUE, bins |-> a, binsInUse |-> from.binsInUse,
                      binCount |-> from.binCount, pairs |-> from.pairs]]
        /\ heap' = [h1 EXCEPT ![a] =
                     [live |-> TRUE,
                      cells |-> copy(Table(from), from.binCount)]]
        /\ status' = "ok"
        /\ last' = Op("copyAssign", dst, src, 0, 0, 0, FALSE, "none")

\* a move that leaves the pointer to the bin table in its source
MovedFrom_keepsBins(mp) ==
    [mp EXCEPT !.binsInUse = 0, !.binCount = 0, !.pairs = <<>>]

\* a move that leaves the entries in its source
MovedFrom_keepsPairs(mp) ==
    [mp EXCEPT !.bins = NULLPTR, !.binsInUse = 0, !.binCount = 0]

\* what a move leaves in its source
MovedFrom(mp) ==
    [mp EXCEPT !.bins = NULLPTR, !.binsInUse = 0, !.binCount = 0, !.pairs = <<>>]

\* Map( Map&& map ): map `dst` is constructed from `src`
moveConstruct(dst, src) ==
    LET from == maps[src]
    IN  /\ status = "ok" /\ ~maps[dst].alive /\ from.alive
        /\ Extra
        /\ dict' = [dict EXCEPT ![dst] = dict[src],
                                ![src] = [k \in Keys |-> Absent]]
        /\ order' = [order EXCEPT ![dst] = order[src], ![src] = <<>>]
        /\ maps' = [maps EXCEPT ![dst] = from, ![src] = MovedFrom(from)]
        /\ heap' = heap
        /\ status' = "ok"
        /\ last' = Op("moveConstruct", dst, src, 0, 0, 0, FALSE, "none")

\* operator=( Map&& map ), on two different maps
moveAssign(dst, src) ==
    LET from == maps[src]
        to == maps[dst]
    IN  /\ status = "ok" /\ to.alive /\ from.alive /\ dst # src
        /\ Extra
        /\ dict' = [dict EXCEPT ![dst] = dict[src],
                                ![src] = [k \in Keys |-> Absent]]
        /\ order' = [order EXCEPT ![dst] = order[src], ![src] = <<>>]
        /\ maps' = [maps EXCEPT ![dst] = from, ![src] = MovedFrom(from)]
        /\ heap' = IF to.bins # NULLPTR THEN release(heap, to.bins) ELSE heap
        /\ status' = "ok"
        /\ last' = Op("moveAssign", dst, src, 0, 0, 0, FALSE, "none")

\* ~Map()
destroy(m) ==
    LET mp == maps[m]
    IN  /\ status = "ok" /\ mp.alive
        /\ Extra
        /\ dict' = [dict EXCEPT ![m] = [k \in Keys |-> Absent]]
        /\ order' = [order EXCEPT ![m] = <<>>]
        /\ maps' = [maps EXCEPT ![m] = NoMap]
        /\ heap' = IF mp.bins # NULLPTR THEN release(heap, mp.bins) ELSE heap
        /\ status' = "ok"
        /\ last' = Op("destroy", m, 0, 0, 0, 0, FALSE, "none")

Next ==
    \/ \E m \in MapIds, k \in OpKeys, v \in Values : put(m, k, v)
    \/ \E m \in MapIds, k \in OpKeys : index(m, k)
    \/ \E m \in MapIds, k \in OpKeys, v \in Values : indexAssign(m, k, v)
    \/ \E m \in MapIds, k \in OpKeys : remove(m, k)
    \/ \E m \in MapIds, k \in QueryKeys : callHas(m, k)
    \/ \E m \in MapIds, k \in QueryKeys : indexConst(m, k)
    \/ \E m \in MapIds : clear(m)
    \/ \E dst \in MapIds, src \in MapIds : copyConstruct(dst, src)
    \/ \E dst \in MapIds, src \in MapIds : copyAssign(dst, src)
    \/ \E dst \in MapIds, src \in MapIds : moveConstruct(dst, src)
    \/ \E dst \in MapIds, src \in MapIds : moveAssign(dst, src)
    \/ \E m \in MapIds : destroy(m)

Spec == Init /\ [][Next]_vars

\* ------------------------------------------------- runs that grow late
\* SpecChurn is Spec on runs of one more operation, on the default table
\* with the colliding hash function, after as many in-order insertions as
\* take the table to the growth threshold: an entry can be removed and
\* another inserted before an access grows the table.

\* the fewest entries for which a table of MIN_BINS bins is at the growth
\* threshold
ChurnFill == (GROW_THRESHOLD * MIN_BINS + 99) \div 100

InitChurn ==
    /\ Begin({ChurnFill}, MaxExtra + 1)
    /\ hashFunc = "collide"
    /\ capacity = 0

SpecChurn == InitChurn /\ [][Next]_vars

\* ------------------------------------------- the probe loop, step by step
\* SpecProbe runs put( key, value ) with the for loop of findBinForKey as
\* single steps: the initialisation (putEnter), one pass through the loop
\* header per step (probeStep), and the rest of put once the loop condition
\* is false (putLeave).

\* The counter `probes` is a uint32.  wrap masks with _binCount - 1 and
\* _binCount divides 2^32, so the bin examined depends on the counter modulo
\* _binCount only, and the counter is kept modulo ProbeWord, a multiple of
\* every _binCount of the model.
ProbeWord == 4 * MIN_BINS

\* the loop condition: !isBinEmpty( i ) && !doesBinContain( i, key ), for
\* an index inside the table
continues(c) ==
    \E cells \in {Table(maps[c.m])} :
        /\ c.i < Len(cells)
        /\ ~isBinEmpty(cells, c.i)
        /\ ~doesBinContain(cells, maps[c.m].pairs, c.i, c.key)

\* what the stepwise put leaves alone
ProbeFrame == UNCHANGED <<params, extra, script>>

\* put( key, value ) is called: i = wrap( hashCode ), probes = 0.  The
\* calls put the next new key with value 1, or the first key again.
putEnter(m, key, val) ==
    /\ status = "ok" /\ ~call.active
    /\ Usable(maps[m])
    /\ nextKey < MaxKeys
    /\ (key = nextKey /\ val = 1) \/ (key = 0 /\ nextKey > 0)
    /\ call' = [active |-> TRUE, m |-> m, key |-> key, val |-> val,
                i |-> wrap(hash(hashFunc, key), maps[m].binCount),
                probes |-> 0]
    /\ UNCHANGED <<maps, heap, status, last, nextKey, dict, order>>
    /\ ProbeFrame

\* the loop condition is true: i = wrap( i + probe( ++probes ) ) in
\* part_000, i = probe( ++probes ) in map.h
probeStep ==
    /\ call.active /\ continues(call)
    /\ \E p \in {(call.probes + 1) % ProbeWord} :
          call' = [call EXCEPT
                     !.probes = p,
                     !.i = IF variant = "A"
                           THEN wrap(call.i + probe(p), maps[call.m].binCount)
                           ELSE probe(p)]
    /\ UNCHANGED <<maps, heap, status, last, nextKey, dict, order>>
    /\ ProbeFrame

\* the loop header is reached with i = _binCount (map.h): the assertion of
\* isBinEmpty fails, or the word behind the table is taken for a bin
probeFault ==
    LET m == call.m
        op == Op("put", m, 0, call.key, call.val, 0, FALSE, "none")
    IN  /\ call.active /\ call.i >= maps[m].binCount
        /\ \/ Fails({"abort"}, op)
           \/ Insert(m, maps[m], Table(maps[m]), OFF, call.key, call.val, op)
        /\ call' = Idle
        /\ nextKey' = Max(nextKey, call.key + 1)
        /\ Stored(m, call.key, call.val) /\ Ordered(m, call.key, call.val)
        /\ ProbeFrame

\* the loop condition is false: findBinForKey returns i, and put fills the
\* bin or overwrites the entry it holds
putLeave ==
    LET m == call.m
        mp == maps[m]
        cells == Table(mp)
        op(found) == Op("put", m, 0, call.key, call.val, 0, found, "none")
    IN  /\ call.active /\ call.i < mp.binCount /\ ~continues(call)
        /\ IF isBinEmpty(cells, call.i)
           THEN Insert(m, mp, cells, call.i, call.key, call.val, op(FALSE))
           ELSE /\ maps' = [maps EXCEPT ![m].pairs[cells[call.i + 1] + 1] =
                             makePair(call.key, call.val)]
                /\ status' = "ok"
                /\ last' = op(TRUE)
                /\ UNCHANGED heap
        /\ call' = Idle
        /\ nextKey' = Max(nextKey, call.key + 1)
        /\ Stored(m, call.key, call.val) /\ Ordered(m, call.key, call.val)
        /\ ProbeFrame

InitProbe == Init /\ fill = 0

NextProbe ==
    \/ \E k \in OpKeys, v \in Values : putEnter(1, k, v)
    \/ probeStep
    \/ probeFault
    \/ putLeave

\* a thread inside put keeps executing
SpecProbe ==
    /\ InitProbe /\ [][NextProbe]_vars
    /\ WF_vars(probeStep) /\ WF_vars(probeFault) /\ WF_vars(putLeave)

\* ------------------------------------- the constructor's loop, step by step
\* SpecCtor runs the loop of Map( uint32 capacity ),
\*     while ( _binCount < capacity ) { _binCount <<= 1; }
\* on 32-bit words: the test of the loop header (ctorTest) and the loop
\* body (ctorShift).  The allocation that follows the loop is Init of Spec.

\* capacities handed to the constructor: small ones, 3000 (the tests'),
\* 2^16, 2^31, 2^31 + 1 and 2^32 - 1
CtorCapacities ==
    {Word32(0), Word32(MIN_BINS), Word32(MIN_BINS + 1), Word32(3000),
     <<1, 0>>, <<Half \div 2, 0>>, <<Half \div 2, 1>>, <<Half - 1, Half - 1>>}

InitCtor ==
    /\ variant \in Variants
    /\ hashFunc = "length" /\ fill = 0 /\ capacity = 0 /\ budget = MaxExtra
    /\ \E c \in CtorCapacities :
          ctor = [pc |-> "test", binCount |-> Word32(MIN_BINS), capacity |-> c]
    /\ maps = [i \in MapIds |-> NoMap]
    /\ heap = [a \in Addrs |-> FreeCell]
    /\ dict = [i \in MapIds |-> [k \in Keys |-> Absent]]
    /\ order = [i \in MapIds |-> <<>>]
    /\ status = "ok"
    /\ last = Op("init", 1, 0, 0, 0, 0, FALSE, "none")
    /\ script = TRUE /\ nextKey = 0 /\ extra = 0
    /\ call = Idle
    /\ load = AtRest

\* what the loop leaves alone
CtorFrame ==
    UNCHANGED <<variant, hashFunc, capacity, fill, budget, maps, heap, status,
                last, nextKey, extra, dict, order, script, call, load>>

\* the loop header: _binCount < capacity
ctorTest ==
    /\ ctor.pc = "test"
    /\ ctor' = [ctor EXCEPT !.pc = IF lessThan(ctor.binCount, ctor.capacity)
                                   THEN "shift" ELSE "done"]
    /\ CtorFrame

\* the loop body: _binCount <<= 1
ctorShift ==
    /\ ctor.pc = "shift"
    /\ ctor' = [ctor EXCEPT !.pc = "test", !.binCount = shiftLeft(ctor.binCount)]
    /\ CtorFrame

NextCtor == ctorTest \/ ctorShift

\* the constructing thread keeps executing
SpecCtor ==
    InitCtor /\ [][NextCtor]_vars /\ WF_vars(ctorTest) /\ WF_vars(ctorShift)

\* ------------------------------------------------------------- claims
\* the map the last operation was applied to, and the map it read from
Target == maps[last.m]
Source == maps[last.src]

Mutators == {"put", "index", "indexAssign", "remove", "clear"}
Copies == {"copyConstruct", "copyAssign"}
Moves == {"moveConstruct", "moveAssign"}

\* C1: put( k, v ) on a map that holds a bin table returns, and immediately
\* after it has( k ) is true and the indexed read of k returns v.
C1_PutThenRead ==
    [][(last'.op = "put" /\ Usable(maps[last'.m])) =>
          /\ status' = "ok"
          /\ has(Target, last.key)'
          /\ read(Target, last.key)' = last'.val]_vars

\* the number of entries of the pair store with the key
Entries(m, key) == Cardinality({j \in 1 .. Len(m.pairs) : m.pairs[j].key = key})

\* C2: remove( k ) of a key k the caller has stored (and not removed) makes
\* has( k ) false and decreases size() by exactly one.
C2_RemoveMapped ==
    [][(last'.op = "remove" /\ Holds(last'.m, last'.key) /\ Returned') =>
          /\ ~has(Target, last.key)'
          /\ size(maps'[last'.m]) = size(maps[last'.m]) - 1]_vars

\* C3: a put of a key that is not mapped makes size() one larger (so N puts
\* of N distinct keys into an empty map make it N); a put of a mapped key
\* leaves size() unchanged and leaves one entry for the key, holding the new
\* value.
C3_PutSize ==
    [][(last'.op = "put" /\ Returned') =>
          IF Holds(last'.m, last'.key)
          THEN /\ size(maps'[last'.m]) = size(maps[last'.m])
               /\ Entries(maps'[last'.m], last'.key) = 1
               /\ read(Target, last.key)' = last'.val
          ELSE size(maps'[last'.m]) = size(maps[last'.m]) + 1]_vars

\* C4: in the tests' scenario on a default-capacity map (the keys inserted
\* in order, then removed in the same order) every insertion makes its key
\* retrievable, every remove succeeds, and the map is empty after the last.
C4_InsertThenRemoveAll ==
    (script /\ capacity = 0 /\ last.op # "init") =>
        /\ status = "ok"
        /\ last.op \in {"put", "indexAssign"} =>
              /\ has(maps[1], last.key)
              /\ read(maps[1], last.key) = last.val
              /\ size(maps[1]) = nextKey
        /\ last.op = "remove" =>
              /\ last.found
              /\ size(maps[1]) = nextKey - extra
              /\ (extra = nextKey => isEmpty(maps[1]))

\* C5: in variant A, remove( k ) of a key the caller has stored returns the
\* value most recently stored for k.
C5_RemoveReturns ==
    [][(variant = "A" /\ last'.op = "remove" /\ Holds(last'.m, last'.key)) =>
          /\ status' = "ok"
          /\ last'.ret = dict[last'.m][last'.key]]_vars

\* C6: an insertion that grows the bin table returns, and keeps every key
\* that was mapped before it: has() still reports it and it reads back its
\* previous value.
C6_GrowthKeeps ==
    [][(last'.resized = "grow") =>
          /\ status' = "ok"
          /\ maps'[last'.m].binCount = 2 * maps[last'.m].binCount
          /\ \A k \in Keys :
                \E before \in {lookup(maps[last'.m], k)} :
                    (before # Absent \/ Holds(last'.m, k)) =>
                        \E after \in {lookup(Target, k)'} :
                            /\ after # Absent
                            /\ (k # last'.key \/ last'.op = "index") =>
                                  after = IF before # Absent THEN before
                                          ELSE dict[last'.m][k]]_vars

\* C6 happens: an insertion has grown a table that was 70% full, and the
\* keys inserted first and last before it are still there.
C6_Witness ==
    /\ last.resized = "grow" /\ status = "ok"
    /\ Target.binCount = 2 * MIN_BINS
    /\ size(Target) * 100 > GROW_THRESHOLD * MIN_BINS
    /\ has(Target, 0) /\ has(Target, last.key - 1)

\* C7: a remove( k ) that shrinks the bin table keeps every other key that
\* was mapped before it: has() still reports it and it reads back its value.
C7_ShrinkKeeps ==
    [][(last'.op = "remove" /\ last'.resized = "shrink" /\ Returned') =>
          \A k \in Keys \ {last'.key} :
              has(maps[last'.m], k) =>
                  /\ has(Target, k)'
                  /\ read(Target, k)' = read(maps[last'.m], k)]_vars

\* n is a power of two
IsPowerOfTwo(n) == n > 0 /\ BitAnd[n, n - 1] = 0

\* C8 as claimed: in every reachable state the capacity of every constructed
\* map is a power of two and at least 32.
C8_CapacityAsClaimed ==
    \A m \in MapIds :
        maps[m].alive =>
            IsPowerOfTwo(maps[m].binCount) /\ maps[m].binCount >= MIN_BINS

\* C8 as the code has it: the capacity of a constructed map is a power of
\* two and at least 32, or it is zero; a map of capacity zero has no bins
\* and no bins in use, and a capacity becomes zero only in the source of a move and
\* in the destination of a copy or move whose source has capacity zero.
C8_Capacity ==
    /\ [](\A m \in MapIds :
            maps[m].alive =>
                \/ IsPowerOfTwo(maps[m].binCount) /\ maps[m].binCount >= MIN_BINS
                \/ /\ maps[m].binCount = 0
                   /\ maps[m].binsInUse = 0
                   /\ Table(maps[m]) = <<>>)
    /\ [][\A m \in MapIds :
            (maps'[m].alive /\ maps'[m].binCount = 0 /\ maps'[m] # maps[m]) =>
                \/ last'.op \in Moves /\ last'.src = m
                \/ /\ last'.op \in Copies \cup Moves /\ last'.m = m
                   /\ maps[last'.src].binCount = 0]_vars

\* C8 happens: a map constructed with 64 bins was moved, its source is left
\* with capacity zero, and a remove has shrunk the destination to the floor.
C8_Witness ==
    /\ last.op = "remove" /\ last.resized = "shrink" /\ status = "ok"
    /\ Target.binCount = MIN_BINS
    /\ \E m \in MapIds : maps[m].alive /\ maps[m].binCount = 0

\* C9: a copy (construction or assignment) has the store of its original,
\* entry by entry in the same order, the same capacity and binsInUse and the
\* same bin-table contents in a table of its own; so it reports the same
\* keys with the same values (stated for the keys an operation can name;
\* the others are functions of the same store and table).  The original is
\* left as it was.
C9_CopyEqual ==
    [][(last'.op \in Copies) =>
          /\ status' = "ok"
          /\ maps'[last'.m].pairs = maps[last'.src].pairs
          /\ maps'[last'.m].binCount = maps[last'.src].binCount
          /\ maps'[last'.m].binsInUse = maps[last'.src].binsInUse
          /\ TableIn(heap', maps'[last'.m]) = Table(maps[last'.src])
          /\ size(maps'[last'.m]) = size(maps[last'.src])
          /\ \A k \in OpKeys :
                lookup(Target, k)' = lookup(maps[last'.src], k)
          /\ maps'[last'.src] = maps[last'.src]
          /\ TableIn(heap', maps'[last'.src]) = Table(maps[last'.src])]_vars

\* C9 happens: a map with several entries was copied by assignment.
C9_Witness ==
    /\ last.op = "copyAssign" /\ status = "ok"
    /\ size(Target) >= SmallFill
    /\ Target.pairs = Source.pairs
    /\ Table(Target) = Table(Source)
    /\ \E i \in 1 .. Len(Table(Target)) : Table(Target)[i] # BIN_EMPTY

\* C10: a put, remove, clear or indexed access applied to one map leaves
\* every other map as it was: its fields (size, store, capacity, binsInUse)
\* and the contents of its bin table, and with them what has() and the
\* indexed read report (stated for the keys an operation can name; the
\* others are functions of the same fields and table).  Two maps with a bin table each exist
\* only after a copy, so this is the independence of copy and original in
\* both directions, step by step.
C10_CopyIndependent ==
    [][(last'.op \in Mutators /\ Returned') =>
          \A o \in MapIds \ {last'.m} :
              /\ maps'[o] = maps[o]
              /\ TableIn(heap', maps'[o]) = Table(maps[o])
              /\ size(maps'[o]) = size(maps[o])
              /\ \A k \in OpKeys :
                    lookup(maps[o], k)' = lookup(maps[o], k)]_vars

\* C10 happens: of a map and its copy, one was changed by a put and now
\* differs from the other.
C10_Witness ==
    /\ last.op = "put" /\ status = "ok"
    /\ \A m \in MapIds : Usable(maps[m])
    /\ maps[1].bins # maps[2].bins
    /\ maps[1].pairs # maps[2].pairs
    /\ Table(maps[1]) # Table(maps[2])

\* C11: after a move (construction or assignment) the destination has the
\* store the source had, entry by entry, and reports every key with the
\* value the source reported before the move (stated for the keys an
\* operation can name); the source reports size() = 0 and isEmpty().
C11_MoveTransfers ==
    [][(last'.op \in Moves) =>
          /\ status' = "ok"
          /\ maps'[last'.m].pairs = maps[last'.src].pairs
          /\ size(maps'[last'.m]) = size(maps[last'.src])
          /\ \A k \in OpKeys :
                lookup(Target, k)' = lookup(maps[last'.src], k)
          /\ size(maps'[last'.src]) = 0
          /\ isEmpty(maps'[last'.src])]_vars

\* C11 happens: a map with several entries was moved by assignment; the
\* destination reports the first key, the source is empty.
C11_Witness ==
    /\ last.op = "moveAssign" /\ status = "ok"
    /\ size(Target) >= SmallFill
    /\ has(Target, 0)
    /\ Source.alive /\ size(Source) = 0 /\ isEmpty(Source)

\* C12: a map that has received insertions only (no remove, no clear) is
\* iterated from cbegin() to cend() in the order in which its keys were
\* first inserted, each key once and with the value stored last, however
\* often the bin table grew.
C12_IterationOrder ==
    \A m \in MapIds :
        (maps[m].alive /\ order[m] # Disordered) =>
            \E it \in {iteration(maps[m])} :
                /\ [n \in 1 .. Len(it) |-> it[n].key] = order[m]
                /\ \A n \in 1 .. Len(it) : it[n].value = dict[m][it[n].key]

\* C12 happens: insertions have grown the default table, and the iteration
\* yields all the keys in the order of insertion.
C12_Witness ==
    /\ capacity = 0 /\ maps[1].binCount = 2 * MIN_BINS
    /\ order[1] # Disordered
    /\ Len(order[1]) * 100 > GROW_THRESHOLD * MIN_BINS
    /\ Len(iteration(maps[1])) = Len(order[1])
    /\ \A n \in 1 .. Len(order[1]) : iteration(maps[1])[n].key = order[1][n]

\* the insertions: put and the indexed write-or-create access
Inserters == {"put", "index", "indexAssign"}

C14_ShrinkDecision ==
    [][(last'.op = "remove") =>
          \E before \in {maps[last'.m]}, after \in {maps'[last'.m]} :
              IF /\ before.binCount > MIN_BINS
                 /\ (before.binsInUse * 100) \div before.binCount <= SHRINK_THRESHOLD
              THEN /\ last'.resized = "shrink"
                   /\ after.binCount * 2 = before.binCount
                   /\ Len(TableIn(heap', after)) = after.binCount
              ELSE /\ last'.resized = "none"
                   /\ after.binCount = before.binCount
                   /\ Len(TableIn(heap', after)) = before.binCount]_vars

\* C14 happens: of two removes from a table of 64 bins, the first found the
\* load above 30%, took it below and left the 64 bins; the second found it
\* at 30% or below and halved the table to 32 bins before removing its entry.
C14_Witness ==
    /\ capacity > MIN_BINS /\ fill = EdgeFill /\ extra = 2
    /\ last.op = "remove" /\ last.found /\ status = "ok"
    /\ last.resized = "shrink"
    /\ Target.binCount = MIN_BINS
    /\ size(Target) = EdgeFill - 2

\* C15: in the version with the void remove, remove( k ) of a key that is
\* not mapped (the caller has not stored it and has( k ) is false) returns
\* and changes nothing: the pair store, binsInUse, the capacity and the
\* contents of the bin table are after the call what they were before it.
C15_RemoveAbsentNoOp ==
    [][(/\ variant = "B" /\ last'.op = "remove"
        /\ Usable(maps[last'.m])
        /\ ~Holds(last'.m, last'.key)
        /\ ~has(maps[last'.m], last'.key)) =>
              /\ status' = "ok"
              /\ maps'[last'.m].pairs = maps[last'.m].pairs
              /\ maps'[last'.m].binsInUse = maps[last'.m].binsInUse
              /\ maps'[last'.m].binCount = maps[last'.m].binCount
              /\ TableIn(heap', maps'[last'.m]) = Table(maps[last'.m])]_vars

\* C16: operator[]( k ) on a map that holds a bin table returns; for a key
\* that is not mapped it adds one mapping of k to a default-constructed
\* value (size() one larger, has( k ) true) and returns that value; for a
\* key that is mapped it returns the value stored for k and leaves size()
\* as it was.
C16_IndexWriteOrCreate ==
    [][(last'.op = "index" /\ Usable(maps[last'.m])) =>
          /\ status' = "ok"
          /\ has(Target, last.key)'
          /\ IF Holds(last'.m, last'.key)
             THEN /\ size(maps'[last'.m]) = size(maps[last'.m])
                  /\ last'.ret = dict[last'.m][last'.key]
                  /\ read(Target, last.key)' = dict[last'.m][last'.key]
             ELSE /\ size(maps'[last'.m]) = size(maps[last'.m]) + 1
                  /\ Entries(maps'[last'.m], last'.key) = 1
                  /\ last'.ret = DefaultValue
                  /\ read(Target, last.key)' = DefaultValue]_vars

\* C17: clear() leaves the map with size() = 0, isEmpty(), binsInUse = 0,
\* every bin EMPTY, has( k ) false for every key and the capacity it had
\* before the call; the map can be inserted into afterwards (a put of any
\* key would return with the key in the table).
C17_Clear ==
    [][(last'.op = "clear") =>
          \E after \in {maps'[last'.m]} :
              /\ status' = "ok"
              /\ size(after) = 0 /\ isEmpty(after)
              /\ after.binsInUse = 0
              /\ after.binCount = maps[last'.m].binCount
              /\ TableIn(heap', after) = clearBins(after.binCount)
              /\ \A k \in Keys : ~has(Target, k)'
              /\ \A k \in OpKeys : canPut(Target, k)']_vars

\* the calls of const members
Queries == {"has", "read"}

\* C18: a call of has( k ) or of the read-only operator[]( k ), on a mapped
\* or an unmapped key, leaves every map as it was: pair store, binsInUse,
\* capacity and the contents of the bin table; it resizes nothing.
C18_QueriesReadOnly ==
    [][(last'.op \in Queries) =>
          /\ last'.resized = "none"
          /\ \A m \in MapIds :
                /\ maps'[m].pairs = maps[m].pairs
                /\ maps'[m].binsInUse = maps[m].binsInUse
                /\ maps'[m].binCount = maps[m].binCount
                /\ TableIn(heap', maps'[m]) = Table(maps[m])]_vars

\* C18 happens: has() has reported a key absent from a table that is 70%
\* full (an insertion would grow it), and the table has its 32 bins.
C18_Witness ==
    /\ last.op = "has" /\ ~last.found /\ status = "ok"
    /\ shouldGrow(Target)
    /\ Target.binCount = MIN_BINS
    /\ size(Target) = Target.binsInUse

\* C19: every call terminates; for put, with the probe loop of
\* findBinForKey taken step by step: a call of put that has entered the
\* loop eventually leaves it (the loop reaches an EMPTY bin or a bin with
\* the key), in every state puts can reach.
C19_Terminates == call.active ~> ~call.active

\* a >> 1 on a uint32
shiftRight(w) == <<w[1] \div 2, w[2] \div 2 + (w[1] % 2) * (Half \div 2)>>

\* the uint32 is a power of two
IsPowerOfTwo32(w) ==
    \/ w[1] = 0 /\ IsPowerOfTwo(w[2])
    \/ w[2] = 0 /\ IsPowerOfTwo(w[1])

\* C20: Map( c ) terminates, for every 32-bit c, and leaves _binCount the
\* smallest power of two that is at least c and at least 32.
C20_Construction ==
    /\ <>(ctor.pc = "done")
    /\ [](ctor.pc = "done" =>
            /\ IsPowerOfTwo32(ctor.binCount)
            /\ ~lessThan(ctor.binCount, ctor.capacity)
            /\ ~lessThan(ctor.binCount, Word32(MIN_BINS))
            /\ \/ ctor.binCount = Word32(MIN_BINS)
               \/ lessThan(shiftRight(ctor.binCount), ctor.capacity))

\* the walk along the probe sequence from the key of the entry at pair
\* index i comes to the bin that holds i, over bins of the table none of
\* which is EMPTY
Reaches(m, i) ==
    \E t \in {Table(m)} :
    \E h \in {hash(hashFunc, m.pairs[i + 1].key)} :
        \E k \in 0 .. Len(t) :
            /\ \E b \in {binAfter(variant, h, Len(t), k)} :
                  b < Len(t) /\ t[b + 1] = i
            /\ \A l \in 0 .. (k - 1) :
                  \E c \in {binAfter(variant, h, Len(t), l)} :
                      c < Len(t) /\ t[c + 1] # BIN_EMPTY

\* C21: in every reachable state, for every entry of every map, the probe
\* sequence from the entry's key reaches the bin holding the entry's pair
\* index before it meets an EMPTY bin; also for the entries that remain
\* after a remove.
C21_ProbeChain ==
    \A m \in MapIds :
        maps[m].alive =>
            \A i \in 0 .. (size(maps[m]) - 1) : Reaches(maps[m], i)

\* the bins of the map's table that hold the pair index i
BinsHolding(m, i) == {b \in 1 .. Len(Table(m)) : Table(m)[b] = i}

\* C22: in every reachable state the non-EMPTY bins of a map and the
\* indices of its pair store correspond one to one: every non-EMPTY bin
\* holds an index below size(), and every index below size() is held by
\* exactly one bin.
C22_BinsMatchStore ==
    \A m \in MapIds :
        maps[m].alive =>
            /\ \A b \in 1 .. Len(Table(maps[m])) :
                  Table(maps[m])[b] # BIN_EMPTY =>
                      /\ Table(maps[m])[b] >= 0
                      /\ Table(maps[m])[b] < size(maps[m])
            /\ \A i \in 0 .. (size(maps[m]) - 1) :
                  Cardinality(BinsHolding(maps[m], i)) = 1

\* the number of bins of the map's table that are not EMPTY
NonEmptyBins(m) ==
    Cardinality({b \in 1 .. Len(Table(m)) : Table(m)[b] # BIN_EMPTY})

\* C23: in every reachable state the counter binsInUse of a map equals the
\* number of its non-EMPTY bins and equals size(), the number of entries of
\* its pair store (stated for the states in which every operation so far
\* has returned normally).
C23_BinsInUse ==
    \A m \in MapIds :
        (maps[m].alive /\ status = "ok") =>
            /\ maps[m].binsInUse = NonEmptyBins(maps[m])
            /\ maps[m].binsInUse = size(maps[m])

\* C24: findBinForKey probes linearly.  With the loop taken step by step:
\* the candidate bin a call examines after its k-th step (k = 0, 1, 2, ...)
\* is wrap( hash( key ) + k ), and the call leaves the loop at the first
\* candidate that is EMPTY or holds the key.
C24_LinearProbing ==
    /\ [](call.active =>
            call.i = wrap(hash(hashFunc, call.key) + call.probes,
                          maps[call.m].binCount))
    /\ [][(call.active /\ ~call'.active /\ status' = "ok") =>
            ~continues(call)]_vars

\* C25: every bin index examined while probing is inside the table.  With
\* the loop of findBinForKey taken step by step: whenever a call is at the
\* loop header, the index i it passes to isBinEmpty is below binCount.
C25_ProbeInBounds ==
    call.active => call.i < maps[call.m].binCount

\* the map and heap a remove works on once its shrink check is done
AtRemoval(m, resized) ==
    IF resized = "shrink" THEN Resized(maps[m], heap, maps[m].binCount \div 2)
    ELSE [ok |-> TRUE, how |-> 0, map |-> maps[m], heap |-> heap]

\* C26: a remove that finds its key, in the bin b holding the pair index r,
\* leaves bin b EMPTY, every other bin that held an index greater than r
\* holding one less, every bin that held a smaller index and every EMPTY
\* bin as it was, and binsInUse one smaller.  (The bins are those of the
\* table the removal works on: the table as it is after the shrink check of
\* the same call.)
C26_RemoveFixUp ==
    [][(last'.op = "remove" /\ last'.found) =>
          \E at \in {AtRemoval(last'.m, last'.resized)} :
          \E t \in {TableIn(at.heap, at.map)} :
          \E u \in {TableIn(heap', maps'[last'.m])} :
          \E b \in {findBinForKey(variant, hashFunc, t, at.map.pairs, last'.key)} :
          \E r \in {t[b + 1]} :
              /\ r # BIN_EMPTY
              /\ Len(u) = Len(t)
              /\ u[b + 1] = BIN_EMPTY
              /\ \A i \in (1 .. Len(t)) \ {b + 1} :
                    /\ (t[i] # BIN_EMPTY /\ t[i] > r) => u[i] = t[i] - 1
                    /\ (t[i] # BIN_EMPTY /\ t[i] < r) => u[i] = t[i]
                    /\ t[i] = BIN_EMPTY => u[i] = BIN_EMPTY
              /\ maps'[last'.m].binsInUse = maps[last'.m].binsInUse - 1]_vars

\* C26 happens: a remove has found the key inserted first (pair index 0) in
\* a map with further entries; each of them is now held by one bin under
\* an index one smaller, and the table has one non-EMPTY bin less.
C26_Witness ==
    /\ last.op = "remove" /\ last.found /\ status = "ok"
    /\ last.key = 0 /\ fill >= SmallFill /\ extra = 1
    /\ size(Target) = fill - 1
    /\ NonEmptyBins(Target) = fill - 1
    /\ \A i \in 0 .. (size(Target) - 1) :
          Cardinality(BinsHolding(Target, i)) = 1

\* C27: put( k, v ) on a key that is mapped (the caller has stored it and
\* not removed it) returns and changes only the value of the entry of k:
\* the entry stays at its pair index, every other entry, size(), binsInUse,
\* the capacity and every bin are as before.
C27_PutMappedFrame ==
    [][(/\ last'.op = "put" /\ Usable(maps[last'.m])
        /\ Holds(last'.m, last'.key)) =>
          \E before \in {maps[last'.m]}, after \in {maps'[last'.m]} :
              /\ status' = "ok"
              /\ size(after) = size(before)
              /\ after.binsInUse = before.binsInUse
              /\ after.binCount = before.binCount
              /\ TableIn(heap', after) = Table(before)
              /\ \E j \in 1 .. Len(before.pairs) :
                    /\ before.pairs[j].key = last'.key
                    /\ after.pairs =
                         [before.pairs EXCEPT ![j] =
                             makePair(last'.key, last'.val)]]_vars

\* C28: a resize (the grow of an indexed access, the shrink of a remove)
\* returns, leaves the pair store, size() and binsInUse as they were and
\* produces a table of the target capacity in which findBinForKey on the key
\* of every entry resolves to the bin that holds the entry's pair index,
\* and in which no other bin is non-EMPTY.
C28_Resize ==
    [][(last'.resized # "none") =>
          \E mp \in {maps[last'.m]} :
          \E target \in {IF last'.resized = "grow" THEN mp.binCount * 2
                         ELSE mp.binCount \div 2} :
          \E r \in {Resized(mp, heap, target)} :
          \E t \in {TableIn(r.heap, r.map)} :
              /\ r.ok
              /\ r.map.pairs = mp.pairs
              /\ size(r.map) = size(mp)
              /\ r.map.binsInUse = mp.binsInUse
              /\ r.map.binCount = target
              /\ Len(t) = target
              /\ \A i \in 0 .. (size(mp) - 1) :
                    \E b \in {findBinForKey(variant, hashFunc, t, mp.pairs,
                                            mp.pairs[i + 1].key)} :
                        b >= 0 /\ t[b + 1] = i
              /\ \A b \in 1 .. Len(t) :
                    t[b] # BIN_EMPTY =>
                        \E i \in 0 .. (size(mp) - 1) :
                            b = 1 + findBinForKey(variant, hashFunc, t, mp.pairs,
                                                  mp.pairs[i + 1].key)]_vars

\* the keys the caller of map m has stored and not removed
Mapped(m) == {k \in Keys : Holds(m, k)}

\* C29: iteration follows the store order under removals.  In every state
\* in which the operations so far have returned normally, a full iteration
\* yields the currently mapped keys, each once; an insertion of a key that
\* is not mapped adds its entry at the end and any other insertion leaves
\* the order of the keys as it was; a remove that finds its key takes that
\* entry out, shifts the later entries down by one position and reorders
\* nothing.
C29_IterationUnderRemovals ==
    /\ [](\A m \in MapIds :
            (maps[m].alive /\ status = "ok") =>
                \E it \in {iteration(maps[m])} :
                    /\ Len(it) = Cardinality(Mapped(m))
                    /\ {it[n].key : n \in 1 .. Len(it)} = Mapped(m))
    /\ [][(last'.op \in Inserters /\ status' = "ok") =>
            \E it \in {iteration(maps[last'.m])} :
            \E jt \in {iteration(maps'[last'.m])} :
                IF Holds(last'.m, last'.key)
                THEN [n \in 1 .. Len(jt) |-> jt[n].key] =
                     [n \in 1 .. Len(it) |-> it[n].key]
                ELSE /\ Len(jt) = Len(it) + 1
                     /\ jt[Len(jt)].key = last'.key
                     /\ \A n \in 1 .. Len(it) : jt[n] = it[n]]_vars
    /\ [][(last'.op = "remove" /\ last'.found /\ status' = "ok") =>
            \E it \in {iteration(maps[last'.m])} :
            \E jt \in {iteration(maps'[last'.m])} :
                \E j \in 1 .. Len(it) :
                    /\ it[j].key = last'.key
                    /\ jt = [n \in 1 .. (Len(it) - 1) |->
                               IF n < j THEN it[n] ELSE it[n + 1]]]_vars

\* ConstIterator( map, index ): _iterValues is the address of the pair
\* store of the map (here the map's identity), _iterIndex the index
ConstIterator(id, iterIndex) == [iterValues |-> id, iterIndex |-> iterIndex]

\* ConstIterator(): no store, index 0
NullIterator == [iterValues |-> NULLPTR, iterIndex |-> 0]

\* an operator== that compares the positions only
equals_indexOnly(a, b) == a.iterIndex = b.iterIndex

\* ConstIterator::operator==
equals(a, b) == a.iterValues = b.iterValues /\ a.iterIndex = b.iterIndex

\* ConstIterator::operator!=
notEquals(a, b) == a.iterValues # b.iterValues \/ a.iterIndex # b.iterIndex

\* ConstIterator::operator++
increment(a) == [a EXCEPT !.iterIndex = @ + 1]

\* the iterators cbegin() and cend() of map id return
cbeginOf(id) == ConstIterator(id, cbegin(maps[id]))
cendOf(id) == ConstIterator(id, cend(maps[id]))

\* for ( iter = first; iter != end; ++iter ): the indices visited, after
\* those of `seen`
RECURSIVE walk(_, _, _)
walk(iter, end, seen) ==
    IF ~notEquals(iter, end) THEN seen
    ELSE walk(increment(iter), end, Append(seen, iter.iterIndex))

\* positions of iterators into map id: the first two and the last two of
\* 0 .. size()
Positions(id) ==
    {n \in {0, 1, size(maps[id]) - 1, size(maps[id])} :
        n >= 0 /\ n <= size(maps[id])}

\* iterators that can be compared: those into the constructed maps, and the
\* default-constructed one
Iterators ==
    {NullIterator} \cup
    {ConstIterator(id, n) : id \in {m \in MapIds : maps[m].alive},
                            n \in 0 .. 1} \cup
    UNION {{ConstIterator(id, n) : n \in Positions(id)} :
              id \in {m \in MapIds : maps[m].alive}}

\* C30: two iterators compare equal exactly when they refer to the store of
\* the same map and to the same position (and operator!= is the negation);
\* cbegin() == cend() exactly when the map is empty; and the loop from
\* cbegin() that advances until the iterator equals cend() visits the
\* positions 0 .. size() - 1, each once, in size() steps.
C30_IteratorEquality ==
    /\ \A a \in Iterators, b \in Iterators :
          /\ equals(a, b) <=> (a = b)
          /\ notEquals(a, b) <=> ~equals(a, b)
    /\ \A m \in MapIds :
          maps[m].alive =>
              /\ equals(cbeginOf(m), cendOf(m)) <=> isEmpty(maps[m])
              /\ walk(cbeginOf(m), cendOf(m), <<>>) =
                     [n \in 1 .. size(maps[m]) |-> n - 1]

\* C30 happens: two maps with entries exist, one with more than the other;
\* their iterators at the same position differ, and each map's cbegin()
\* differs from its cend().
C30_Witness ==
    /\ \A m \in MapIds : maps[m].alive /\ ~isEmpty(maps[m])
    /\ size(maps[1]) # size(maps[2])
    /\ ~equals(cbeginOf(1), cbeginOf(2))
    /\ ~equals(cbeginOf(1), cendOf(1))
    /\ Len(walk(cbeginOf(2), cendOf(2), <<>>)) = size(maps[2])

\* the constructed maps whose _bins is the block at address a
Owners(a) == {m \in MapIds : maps[m].alive /\ maps[m].bins = a}

\* C31: every bin table is released exactly once.  In every reachable state
\* the table a map points to is allocated (none is used after its release),
\* every allocated table belongs to exactly one constructed map (none is
\* shared, so none can be released twice, and none is left once all maps
\* are destroyed); a step releases a table only of the map it acts on; a
\* move leaves its source with null storage and zeroed binCount and
\* binsInUse, and the destructor of such a map releases nothing.
C31_ReleasedOnce ==
    /\ [](\A m \in MapIds :
            (maps[m].alive /\ maps[m].bins # NULLPTR) => heap[maps[m].bins].live)
    /\ [](\A a \in Addrs : heap[a].live => Cardinality(Owners(a)) = 1)
    /\ [][\A a \in Addrs :
            (heap[a].live /\ ~heap'[a].live) =>
                /\ Owners(a) = {last'.m}
                /\ \A m \in MapIds : ~(maps'[m].alive /\ maps'[m].bins = a)]_vars
    /\ [][(last'.op \in Moves) =>
            /\ maps'[last'.src].bins = NULLPTR
            /\ maps'[last'.src].binCount = 0
            /\ maps'[last'.src].binsInUse = 0
            /\ maps'[last'.m].bins = maps[last'.src].bins
            /\ \A a \in Addrs \ {maps[last'.m].bins} : heap'[a] = heap[a]]_vars
    /\ [][(last'.op = "destroy" /\ maps[last'.m].bins = NULLPTR) =>
            heap' = heap]_vars

\* C31 happens: a map whose table had grown was moved into a second map and
\* the moved-from map was destroyed; the one allocated table is that of the
\* second map.
C31_Witness ==
    /\ last.op = "destroy" /\ last.m = 1 /\ status = "ok"
    /\ ~maps[1].alive /\ maps[2].alive
    /\ capacity = 0 /\ maps[2].binCount = 2 * MIN_BINS
    /\ size(maps[2]) >= MIN_BINS
    /\ {a \in Addrs : heap[a].live} = {maps[2].bins}

\* C32: the bin table is never full.  In every state reached by put,
\* operator[], remove and clear a map that holds a bin table has
\* binsInUse < binCount, and after every insertion that has added an entry
\* the load is within the grow threshold plus the one entry added:
\* (binsInUse - 1) * 100 < 70 * binCount.
C32_NeverFull ==
    /\ [](status = "ok" =>
            \A m \in MapIds :
                Usable(maps[m]) => maps[m].binsInUse < maps[m].binCount)
    /\ [][(/\ last'.op \in Inserters
           /\ status' = "ok"
           /\ size(maps'[last'.m]) > size(maps[last'.m])) =>
            (maps'[last'.m].binsInUse - 1) * 100
                < GROW_THRESHOLD * maps'[last'.m].binCount]_vars

\* C33: keys are unique.  In every state in which the operations so far
\* have returned normally, no two entries of the pair store of a map have
\* equal keys.
C33_KeyUnique ==
    status = "ok" =>
        \A m \in MapIds : \A k \in Keys : Entries(maps[m], k) <= 1

\* C34: remove( k ) affects only k.  After a remove( k ) that returns
\* normally every other key is found exactly as before, has() giving the
\* same answer and the read the same value, whether or not the key shared
\* a probe chain with k and whether or not the remove shrank the table.
C34_RemoveFrame ==
    [][(last'.op = "remove" /\ status' = "ok") =>
          \A k \in Keys \ {last'.key} :
              /\ has(Target, k)' <=> has(maps[last'.m], k)
              /\ lookup(Target, k)' = lookup(maps[last'.m], k)]_vars

\* map m answers as the dictionary of what its caller has stored: for every
\* key has() and the read give the dictionary's membership and value, and
\* size() is the number of keys of the dictionary
Refines(m) ==
    /\ \A k \in Keys : lookup(maps[m], k) = dict[m][k]
    /\ size(maps[m]) = Cardinality(Mapped(m))

\* C35: the map refines a dictionary.  A put, an operator[], a remove of a
\* mapped key or a clear that returns normally on a map that answers as the
\* dictionary of its caller leaves a map that answers as the dictionary
\* after the same operation, and a constructed map answers as the empty
\* dictionary.
C35_Refinement ==
    /\ [](last.op = "init" => Refines(last.m))
    /\ [][(/\ last'.op \in Mutators
           /\ last'.op = "remove" => Holds(last'.m, last'.key)
           /\ status' = "ok"
           /\ Refines(last'.m)) => Refines(last.m)']_vars

\* the load the resize policy looks at, in percent
percentInUse(m) == (m.binsInUse * 100) \div m.binCount

\* C36: the resize policy does not thrash.  An operation that grew the
\* table of a map is never followed by a shrink in the very next operation
\* on that map, nor a shrink by a growth; the load of the map an operation
\* leaves after a growth is above the shrink threshold of 30 and after a
\* shrink below the grow threshold of 70.
C36_NoThrash ==
    /\ [][(last.resized = "grow" /\ last'.m = last.m) =>
            last'.resized # "shrink"]_vars
    /\ [][(last.resized = "shrink" /\ last'.m = last.m) =>
            last'.resized # "grow"]_vars
    /\ [][(last'.resized = "grow" /\ status' = "ok") =>
            percentInUse(Target)' > SHRINK_THRESHOLD]_vars
    /\ [][(last'.resized = "shrink" /\ status' = "ok") =>
            percentInUse(Target)' < GROW_THRESHOLD]_vars

\* C36 happens: map 1 was constructed with 64 bins and holds 32, so its
\* first further operation was a remove that shrank it, and the operation
\* after that, an operator[] of a new key, has returned without growing it.
C36_Witness ==
    /\ capacity > MIN_BINS /\ maps[1].alive /\ maps[1].binCount = MIN_BINS
    /\ extra = 2 /\ status = "ok"
    /\ last.op = "index" /\ last.m = 1 /\ ~last.found /\ last.resized = "none"
    /\ size(maps[1]) = SmallFill

\* C37: operator[]( k ) on a key that is already mapped changes nothing:
\* the pair store, binsInUse, binCount and the contents of the bin table
\* are as before the call, and the call does not resize the table.
C37_IndexMappedFrame ==
    [][(last'.op = "index" /\ Holds(last'.m, last'.key) /\ Returned') =>
          /\ last'.resized = "none"
          /\ Target.pairs' = maps[last'.m].pairs
          /\ Target.binsInUse' = maps[last'.m].binsInUse
          /\ Target.binCount' = maps[last'.m].binCount
          /\ Table(Target)' = Table(maps[last'.m])]_vars

\* -------------------------------------------------- assignment to itself
\* What the block handed out by _binAlloc.get( _binCount ) can hold when
\* operator=( const Map& ) copies it onto itself: the words of the table
\* just released (the allocator hands the same block back untouched), or
\* words the map never wrote: all ones, all zeroes.
unsetBins(cells, binCount) ==
    {cells, clearBins(binCount), [i \in 1 .. binCount |-> 0]}

\* operator=( const Map& map ) with map == *this.  There is no test for
\* self-assignment: the table is released, _binCount and _binsInUse are
\* assigned to themselves, a block is allocated and, map._bins being _bins,
\* copied onto itself, so the table is whatever the new block holds.
copyAssignSelf(m) ==
    LET mp == maps[m]
        h1 == IF mp.bins # NULLPTR THEN release(heap, mp.bins) ELSE heap
        a == get(h1)
    IN  /\ status = "ok" /\ mp.alive
        /\ Extra
        /\ UNCHANGED <<dict, order>>
        /\ \E cells \in unsetBins(Table(mp), mp.binCount) :
               /\ maps' = [maps EXCEPT ![m] = [mp EXCEPT !.bins = a]]
               /\ heap' = [h1 EXCEPT ![a] = [live |-> TRUE, cells |-> cells]]
               /\ status' = IF cells = Table(mp) THEN "ok" ELSE "corrupt"
        /\ last' = Op("copyAssign", m, m, 0, 0, 0, FALSE, "none")

\* the runs of SpecSelf start from the empty map and from a map of two keys
InitSelf == Begin({0, SmallFill}, MaxExtra)

NextSelf ==
    \/ Next
    \/ \E m \in MapIds : copyAssignSelf(m)

\* SpecSelf is Spec on small maps, with assignment of a map to itself
SpecSelf == InitSelf /\ [][NextSelf]_vars

\* C38: copy-assigning a map to itself leaves it unchanged: the pair store,
\* binsInUse, binCount and the contents of the bin table are as before, and
\* every key is found as before.
C38_SelfAssign ==
    [][(last'.op = "copyAssign" /\ last'.src = last'.m /\ Returned') =>
          /\ Target.pairs' = maps[last'.m].pairs
          /\ Target.binsInUse' = maps[last'.m].binsInUse
          /\ Target.binCount' = maps[last'.m].binCount
          /\ Table(Target)' = Table(maps[last'.m])
          /\ \A k \in Keys : lookup(Target, k)' = lookup(maps[last'.m], k)]_vars

\* C39: a moved-from map is empty and can be queried and used again.  A
\* has, put, operator[] or remove called on a map that a move has left
\* without a bin table returns normally, and has reports no key.
C39_MovedFromUsable ==
    [][(/\ last'.op \in {"has", "put", "index", "indexAssign", "remove"}
        /\ maps[last'.m].alive
        /\ maps[last'.m].bins = NULLPTR) =>
          /\ status' = "ok"
          /\ last'.op = "has" => ~last'.found]_vars

\* ------------------------------------------- the load, on 32-bit words
\* c * w for a small factor c and a uint32 w, without loss: three 16-bit
\* digits <<top, high, low>>
times(c, w) ==
    LET low == c * w[2]
        high == c * w[1] + low \div Half
    IN  <<high \div Half, high % Half, low % Half>>

\* _binsInUse * 100 on uint32: the digits above the word are lost
times100(w) == <<times(100, w)[2], times(100, w)[3]>>

\* a / b on uint32, for a divisor that is a power of two (every capacity
\* the constructors and resize produce is one): long division by the one
\* digit of the divisor that is not zero
divide(a, b) ==
    IF b[1] = 0
    THEN <<a[1] \div b[2], ((a[1] % b[2]) * Half + a[2]) \div b[2]>>
    ELSE <<0, a[1] \div b[1]>>

\* a < b on three-digit numbers
lessThan3(a, b) ==
    \/ a[1] < b[1]
    \/ a[1] = b[1] /\ lessThan(<<a[2], a[3]>>, <<b[2], b[3]>>)

\* the occupancy in percent, rounded down, of binsInUse bins out of
\* binCount, in exact arithmetic: the q with q * n <= 100 * b < (q + 1) * n
floorPercent(binsInUse, binCount) ==
    CHOOSE q \in 0 .. 100 :
        /\ ~lessThan3(times(100, binsInUse), times(q, binCount))
        /\ lessThan3(times(100, binsInUse), times(q + 1, binCount))

\* the capacities: the powers of two from 32 to 2^31
LoadBinCounts ==
    {<<0, 2 ^ k>> : k \in 5 .. 15} \cup {<<2 ^ k, 0>> : k \in 0 .. 15}

\* the largest _binsInUse whose hundredfold fits 32 bits: 42,949,672
LastExact == <<655, 23592>>

\* numbers of bins in use of a table of n bins: none, one, the first to
\* reach the grow threshold of the default table, half, all but one and
\* all of the bins, and the numbers either side of where the product
\* passes 2^32
LoadInUse(n) ==
    {b \in {Word32(0), Word32(1), Word32(ChurnFill), shiftRight(n),
            <<(IF n[2] = 0 THEN n[1] - 1 ELSE n[1]),
              (IF n[2] = 0 THEN Half - 1 ELSE n[2] - 1)>>,
            n, LastExact, <<LastExact[1], LastExact[2] + 1>>} :
        ~lessThan(n, b)}

InitLoad ==
    /\ variant \in Variants
    /\ hashFunc = "length" /\ fill = 0 /\ capacity = 0 /\ budget = MaxExtra
    /\ ctor = Constructed(0, MIN_BINS)
    /\ \E n \in LoadBinCounts : \E b \in LoadInUse(n) : load = Evaluate(b, n)
    /\ maps = [i \in MapIds |-> NoMap]
    /\ heap = [a \in Addrs |-> FreeCell]
    /\ dict = [i \in MapIds |-> [k \in Keys |-> Absent]]
    /\ order = [i \in MapIds |-> <<>>]
    /\ status = "ok"
    /\ last = Op("init", 1, 0, 0, 0, 0, FALSE, "none")
    /\ script = TRUE /\ nextKey = 0 /\ extra = 0
    /\ call = Idle

\* what the evaluation leaves alone
LoadFrame ==
    UNCHANGED <<variant, hashFunc, capacity, fill, budget, maps, heap, status,
                last, nextKey, extra, dict, order, script, call, ctor>>

\* _binsInUse * 100
loadMultiply ==
    /\ load.pc = "multiply"
    /\ load' = [load EXCEPT !.pc = "divide", !.product = times100(load.binsInUse)]
    /\ LoadFrame

\* ( _binsInUse * 100 ) / _binCount
loadDivide ==
    /\ load.pc = "divide"
    /\ load' = [load EXCEPT !.pc = "done",
                            !.percent = divide(load.product, load.binCount)]
    /\ LoadFrame

NextLoad == loadMultiply \/ loadDivide

SpecLoad == InitLoad /\ [][NextLoad]_vars

\* C40: the load is exact.  For every table of binCount bins and every
\* binsInUse <= binCount the product binsInUse * 100 fits the 32-bit word
\* it is computed in, and ( binsInUse * 100 ) / binCount as the code
\* computes it is the true percentage rounded down.
C40_LoadExact ==
    /\ load.pc # "multiply" => times(100, load.binsInUse)[1] = 0
    /\ load.pc = "done" =>
           load.percent = Word32(floorPercent(load.binsInUse, load.binCount))

====
